---- MODULE Spec2Model ----
(***************************************************************************)
(* Model of the push-notification delivery code of AWS-push-notification:  *)
(*   - BatchNotificationSender (tools/batch-sender.js): constructor,       *)
(*     sendSingleNotification, sendBatch, validateNotification and the     *)
(*     CLI main that drives them;                                          *)
(*   - the Lambda handler (validateInput, exports.handler);                *)
(*   - the CircuitBreaker of the Firebase runbook;                         *)
(*   - FCMTokenValidator (validateTokenFormat, validateToken,              *)
(*     validateTokens);                                                    *)
(*   - sendBatchNotifications of the optimization guide.                   *)
(* Each component has its own specification over the shared variables; the *)
(* variables of the components a specification does not run stay at their  *)
(* initial values.                                                         *)
(***************************************************************************)
EXTENDS Integers, Sequences, FiniteSets, TLC

VARIABLES
    \* ---- BatchNotificationSender -------------------------------------
    notifications,   \* the argument of sendBatch: a sequence of notifications
    optBatchSize,    \* options.batchSize  (<<>> when absent, <<n>> otherwise)
    optMaxRetries,   \* options.maxRetries (<<>> when absent, <<n>> otherwise)
    batchSize,       \* this.batchSize
    maxRetries,      \* this.maxRetries
    pc,              \* position of the sendBatch call
    i,               \* the loop index of sendBatch (0-based, as in the code)
    batch,           \* the current slice: input positions (1-based)
    sends,           \* the sendSingleNotification promises of the current batch
    results,         \* the results array of sendBatch
    batches,         \* history: every slice processed, in order
    waits,           \* history: number of delayBetweenBatches waits started
    \* ---- CLI main -------------------------------------------------------
    mainPc,          \* position of main()
    \* ---- Lambda handler ---------------------------------------------------
    hPc,             \* position of exports.handler
    hBody,           \* event.body
    hStatus,         \* statusCode of the response (0: none yet)
    hPublished,      \* sns.publish calls made by the handler
    hMetrics,        \* cloudwatch.putMetricData calls settled
    hSns,            \* history: how sns.publish has settled ("none": not yet)
    hSuccess,        \* success flag of the response body ("none": none yet)
    hMetricFailed,   \* history: whether a putMetricData call has failed
    \* ---- CircuitBreaker -----------------------------------------------------
    state,           \* this.state
    failureCount,    \* this.failureCount
    lastFailureTime, \* this.lastFailureTime (-1: null)
    now,             \* Date.now()
    callers,         \* per concurrent caller of call(): its position
    callsMade,       \* history: number of call() invocations so far
    lastCall,        \* history: how the latest call() to end has ended
    consecutiveFailures, \* history: operations failed since the last success
    windowFailures,  \* history: operations failed since the breaker last closed
    \* ---- FCMTokenValidator ---------------------------------------------------
    vTokens,         \* the tokens argument of validateTokens
    vInitialized,    \* this.initialized
    vBatchSize,      \* batchSize of validateTokens, after the default
    vDelay,          \* delay of validateTokens, after the default
    vPc,             \* position of the validateTokens call
    vI,              \* the loop index of validateTokens (0-based)
    vChecks,         \* the validateToken promises of the current batch
    vResults,        \* the results array of validateTokens
    vSendCalls,      \* history: messaging.send calls made, per input position
    \* ---- sendBatchNotifications, sendNotificationsBatch ----------------------
    mcFn,            \* which of the two functions is called
    mcTokens,        \* the tokens argument: a sequence of tokens
    mcBatchSize,     \* the batchSize argument, after the default
    mcBatches,       \* the batches array
    mcB,             \* the batch the for...of loop is at (1-based)
    mcPc,            \* position of the sendBatchNotifications call
    mcResults,       \* the results array
    mcRemoved,       \* history: the entries passed to removeInvalidTokens
    \* ---- checkRateLimit --------------------------------------------------------
    rlEntry,         \* rateLimit.get(clientId): <<>> or <<the client object>>
    rlMaxRequests,   \* the maxRequests argument
    rlNow,           \* Date.now()
    rlCalls,         \* history: number of checkRateLimit calls so far
    rlLast,          \* history: how the latest call has ended
    rlAccepted,      \* history: calls accepted since the latest window reset
    \* ---- generateSummary, generateReport ---------------------------------------
    rpFn,            \* which of the two functions is called
    rpResults,       \* the results argument
    rpReport,        \* the summary returned (<<>>: not called yet)
    \* ---- validateAndCleanTokens ------------------------------------------------
    vcFn,            \* which of the two versions is called
    vcCount,         \* tokens.length; a token is named by its position
    vcPc,            \* position of the call
    vcI,             \* the token the for...of loop is at (1-based)
    vcValid,         \* validTokens, as a set of positions
    vcInvalid,       \* invalidTokens, as a set of positions
    vcCanonical,     \* the keys of canonicalTokens, as a set of positions
    vcRemoved,       \* history: the tokens passed to removeInvalidTokens
    vcReplaced,      \* history: the tokens passed to updateCanonicalTokens
    \* ---- publishWithRetry ------------------------------------------------------
    pwMaxRetries,    \* the maxRetries parameter, after the default
    pwAttempt,       \* the loop variable attempt
    pwPc,            \* position of the publishWithRetry call
    pwRemaining,     \* seconds left of the backoff wait under way
    pwPublishes,     \* history: sns.publish calls made
    pwLast,          \* history: how the latest sns.publish call has ended
    pwResult,        \* how the promise of the call has settled
    \* ---- the token format checks -----------------------------------------------
    fmPc,            \* "ready" once a token is there to check
    fmToken,         \* the token given to the three checks
    fmTester,        \* verdict of validateFCMToken ("none": not called yet)
    fmValidator,     \* verdict of validateTokenFormat
    fmHandler        \* verdict of validateInput on a body with this fcmToken

senderVars == <<notifications, optBatchSize, optMaxRetries, batchSize, maxRetries,
                pc, i, batch, sends, results, batches, waits>>
mainVars == <<mainPc>>
handlerVars == <<hPc, hBody, hStatus, hPublished, hMetrics, hSns, hSuccess,
                 hMetricFailed>>
breakerVars == <<state, failureCount, lastFailureTime, now, callers, callsMade,
                 lastCall, consecutiveFailures, windowFailures>>
validatorVars == <<vTokens, vInitialized, vBatchSize, vDelay, vPc, vI, vChecks,
                   vResults, vSendCalls>>
multicastVars == <<mcFn, mcTokens, mcBatchSize, mcBatches, mcB, mcPc, mcResults,
                   mcRemoved>>
limiterVars == <<rlEntry, rlMaxRequests, rlNow, rlCalls, rlLast, rlAccepted>>
reportVars == <<rpFn, rpResults, rpReport>>
cleanVars == <<vcFn, vcCount, vcPc, vcI, vcValid, vcInvalid, vcCanonical, vcRemoved,
               vcReplaced>>
publisherVars == <<pwMaxRetries, pwAttempt, pwPc, pwRemaining, pwPublishes, pwLast,
                   pwResult>>
formatVars == <<fmPc, fmToken, fmTester, fmValidator, fmHandler>>
vars == <<senderVars, mainVars, handlerVars, breakerVars, validatorVars,
          multicastVars, limiterVars, reportVars, cleanVars, publisherVars,
          formatVars>>

----------------------------------------------------------------------------
(* Bounds of the model *)

MaxLen == 2          \* longest notification list passed to sendBatch
MaxBatchOpt == 2     \* largest batchSize option tried
MaxRetriesOpt == 1   \* largest maxRetries option tried
MaxBackSteps == 2    \* how far below 0 the loop index may run (batchSize < 0)

Timeout == 2         \* the breaker's cooldown, in ticks of the model's clock
MaxTime == 4         \* last tick of the model's clock
NumCallers == 2      \* concurrent callers of CircuitBreaker.call
MaxCalls == 7        \* call() invocations in one behaviour

MaxRequestsOpt == 2  \* largest maxRequests argument tried
Window == 2          \* the windowMs argument, in ticks of the model's clock

MaxResults == 3      \* longest results list passed to generateSummary and to
                     \* generateReport

MaxPublishRetries == 5   \* largest maxRetries passed to publishWithRetry

MaxCleanTokens == 2  \* most tokens passed to validateAndCleanTokens whose
                     \* responses are chosen freely (the tokens after them
                     \* are valid)

MaxTokens == 2       \* longest token list passed to validateTokens and to
                     \* sendBatchNotifications

(* Program constants *)

Threshold == 5

DefaultBatchSize == 10
DefaultMaxRetries == 3
DefaultRetryDelay == 2000

MinTokenLength == 140
MaxTokenLength == 200
DefaultValidatorBatchSize == 10
DefaultValidatorDelay == 100

DefaultMulticastBatchSize == 500
ValidationLimit == 500
DefaultPublishRetries == 3
MinBodyTokenLength == 10

----------------------------------------------------------------------------
(* JavaScript helpers *)

\* a || d for an optional number a: undefined and 0 are falsy
OrDefault(a, d) == IF a = <<>> THEN d ELSE IF a[1] = 0 THEN d ELSE a[1]

\* Array.prototype.slice(start, end) on a sequence, with 0-based indices
ClampIndex(k, len) == IF k < 0 THEN (IF len + k < 0 THEN 0 ELSE len + k)
                      ELSE (IF k > len THEN len ELSE k)

Slice(s, start, end) ==
    LET from == ClampIndex(start, Len(s))
        to == ClampIndex(end, Len(s))
    IN  IF to <= from THEN <<>> ELSE SubSeq(s, from + 1, to)

Positions == [k \in 1..Len(notifications) |-> k]

\* notification.fcmToken.substring(0, 10): a TypeError unless it is a string
SubstringThrows(n) == n.fcmToken # "string"

----------------------------------------------------------------------------
(* BatchNotificationSender *)

\* the fcmToken of a notification: a string, a non-string value such as a
\* number, or absent (falsy)
TokenKinds == {"string", "number", "missing"}

\* a notification: the kind of its fcmToken, the length of its title and
\* message (0: absent) and whether it has a data field
Notification(tok, title, msg, data) ==
    [fcmToken |-> tok, title |-> title, message |-> msg, data |-> data]

PlainNotifications == {Notification(t, 4, 4, FALSE) : t \in {"string", "number"}}

BatchSizeOptions == {<<>>} \cup {<<n>> : n \in -1..MaxBatchOpt}
MaxRetriesOptions == {<<>>} \cup {<<n>> : n \in 0..MaxRetriesOpt}

SeqsUpTo(S, n) == UNION {[1..k -> S] : k \in 0..n}

SenderIdle ==
    /\ notifications = <<>> /\ optBatchSize = <<>> /\ optMaxRetries = <<>>
    /\ batchSize = DefaultBatchSize /\ maxRetries = DefaultMaxRetries
    /\ pc = "unused" /\ i = 0 /\ batch = <<>> /\ sends = <<>> /\ results = <<>>
    /\ batches = <<>> /\ waits = 0

\* constructor(options), then the arguments of the sendBatch call to come
Constructor(ns, obs, omr) ==
    /\ notifications = ns
    /\ optBatchSize = obs
    /\ optMaxRetries = omr
    /\ batchSize = OrDefault(obs, DefaultBatchSize)
    /\ maxRetries = OrDefault(omr, DefaultMaxRetries)
    /\ pc = "ready" /\ i = 0 /\ batch = <<>> /\ sends = <<>> /\ results = <<>>
    /\ batches = <<>> /\ waits = 0

\* sendSingleNotification(notification) up to its first await: the promise
\* of the call, with the publish call it has issued.  attempts and okCount
\* count the sns.publish calls made for the notification and those that
\* succeeded; error is the error caught last, delay the wait before the
\* latest retry (0: none yet).
FirstAttempt ==
    [st |-> "publishing", retryCount |-> 0, attempts |-> 1, okCount |-> 0,
     error |-> "none", success |-> FALSE, delay |-> 0]

\* faulty variant: a wait follows every batch, the last one included
WaitAlways(ni, bs) == TRUE

\* the test before the wait: i + this.batchSize < notifications.length
WaitNeeded(ni, bs) == ni + bs < Len(notifications)

\* the loop test of sendBatch at index ni and, when it passes, the body up
\* to the await of Promise.all: every send of the slice issues its publish
Iterate(ni, bs) ==
    /\ i' = ni
    /\ IF ni < Len(notifications)
       THEN LET b == Slice(Positions, ni, ni + bs) IN
            /\ batch' = b
            /\ batches' = Append(batches, b)
            /\ sends' = [k \in 1..Len(b) |-> FirstAttempt]
            \* Promise.all([]) fulfils at once; the wait test follows
            /\ pc' = IF b # <<>> THEN "awaitAll"
                     ELSE IF WaitNeeded(ni, bs) THEN "delay"
                     ELSE "returned"
       ELSE /\ pc' = "returned"
            /\ UNCHANGED <<batch, batches, sends>>

\* a step of sendBatch counts the wait it starts
CountWait ==
    waits' = IF pc' = "delay" /\ (pc # "delay" \/ batches' # batches)
             THEN waits + 1 ELSE waits

SenderConfig == <<notifications, optBatchSize, optMaxRetries, batchSize, maxRetries>>

\* main() after its await of sendBatch: process.exit(failed > 0 ? 1 : 0) when
\* the call returned rs, the catch block's process.exit(1) when it rejected
MainAfterSendBatch(rs) ==
    mainPc' = IF mainPc = "sending" /\ pc' = "returned"
              THEN (IF \E k \in 1..Len(rs) : ~rs[k].success THEN "exit1" ELSE "exit0")
              ELSE IF mainPc = "sending" /\ pc' = "rejected" THEN "exit1"
              ELSE mainPc

SendBatch ==
    /\ pc = "ready"
    /\ mainPc = "unused"
    /\ Iterate(0, batchSize)
    /\ CountWait
    /\ UNCHANGED <<SenderConfig, results>>
    /\ UNCHANGED <<mainVars, handlerVars, breakerVars, validatorVars, multicastVars, limiterVars, reportVars, cleanVars, publisherVars,
                   formatVars>>

PublishOutcomes == {"ok", "transient", "permanent"}

\* the wait before the retry that follows the attempt with this retryCount:
\* this.delay(this.retryDelay), whatever the count
RetryDelay(retryCount) == DefaultRetryDelay

\* the catch block of sendSingleNotification: retry, or the failure result
CatchBlock(s, n, err) ==
    IF s.retryCount < maxRetries
    THEN [s EXCEPT !.st = "retryDelay", !.error = err,
                   !.delay = RetryDelay(s.retryCount)]
    ELSE IF SubstringThrows(n)
    THEN [s EXCEPT !.st = "rejected", !.error = "TypeError"]
    ELSE [s EXCEPT !.st = "fulfilled", !.error = err, !.success = FALSE]

\* what the promise of send k becomes when its publish settles with outcome o
SettledSend(k, o) ==
    LET n == notifications[batch[k]]
        s == [sends[k] EXCEPT !.okCount = IF o = "ok" THEN @ + 1 ELSE @]
    IN  IF o # "ok" THEN CatchBlock(s, n, o)
        ELSE IF SubstringThrows(n) THEN CatchBlock(s, n, "TypeError")
        ELSE [s EXCEPT !.st = "fulfilled", !.success = TRUE]

\* faulty variant: only the successful sends are pushed to the results
BatchResultsDropFailed(ss) ==
    SelectSeq([k \in 1..Len(ss) |-> [idx |-> batch[k], success |-> ss[k].success]],
              LAMBDA r : r.success)

BatchResults(ss) == [k \in 1..Len(ss) |-> [idx |-> batch[k], success |-> ss[k].success]]

\* the code after the await of Promise.all, up to the next await or return
AfterPromiseAll(ss) ==
    /\ results' = results \o BatchResults(ss)
    /\ IF WaitNeeded(i, batchSize)
       THEN pc' = "delay" /\ i' = i
       ELSE pc' = "returned" /\ i' = i + batchSize

\* sns.publish of send k settles; sendSingleNotification runs to its next
\* await or to its end, and Promise.all settles when this decides it
PublishSettles(k, o) ==
    /\ mainPc \in {"unused", "sending"}
    /\ pc \in {"awaitAll", "rejected"}
    /\ k \in 1..Len(sends)
    /\ sends[k].st = "publishing"
    /\ LET ss == [sends EXCEPT ![k] = SettledSend(k, o)] IN
       /\ sends' = ss
       /\ IF pc = "awaitAll" /\ ss[k].st = "rejected"
          THEN pc' = "rejected" /\ UNCHANGED <<i, results>>
          ELSE IF pc = "awaitAll" /\ \A j \in 1..Len(ss) : ss[j].st = "fulfilled"
          THEN AfterPromiseAll(ss)
          ELSE UNCHANGED <<pc, i, results>>
    /\ MainAfterSendBatch(results')
    /\ CountWait
    /\ UNCHANGED <<SenderConfig, batch, batches>>
    /\ UNCHANGED <<handlerVars, breakerVars, validatorVars, multicastVars, limiterVars, reportVars, cleanVars, publisherVars,
                   formatVars>>

\* the retryDelay of send k elapses: sendSingleNotification(n, retryCount + 1)
RetryDelayElapsed(k) ==
    /\ mainPc \in {"unused", "sending"}
    /\ pc \in {"awaitAll", "rejected"}
    /\ k \in 1..Len(sends)
    /\ sends[k].st = "retryDelay"
    /\ sends' = [sends EXCEPT ![k].st = "publishing", ![k].retryCount = @ + 1,
                              ![k].attempts = @ + 1, ![k].error = "none"]
    /\ UNCHANGED <<SenderConfig, pc, i, batch, results, batches, waits>>
    /\ UNCHANGED <<mainVars, handlerVars, breakerVars, validatorVars, multicastVars, limiterVars, reportVars, cleanVars, publisherVars,
                   formatVars>>

\* delayBetweenBatches elapses: i += batchSize and the loop goes on
BatchDelayElapsed ==
    /\ pc = "delay"
    /\ i + batchSize >= -MaxBackSteps
    /\ mainPc \in {"unused", "sending"}
    /\ Iterate(i + batchSize, batchSize)
    /\ CountWait
    /\ MainAfterSendBatch(results)
    /\ UNCHANGED <<SenderConfig, results>>
    /\ UNCHANGED <<handlerVars, breakerVars, validatorVars, multicastVars, limiterVars, reportVars, cleanVars, publisherVars,
                   formatVars>>

----------------------------------------------------------------------------
(* CLI main of the batch sender *)

MaxTitleLength == 100
MaxMessageLength == 500

\* validateNotification(notification): the set of its error messages
ValidateNotification(n) ==
    (IF n.fcmToken = "missing" THEN {"Missing fcmToken"} ELSE {})
    \cup (IF n.title = 0 /\ ~n.data THEN {"Must have either title or data"} ELSE {})
    \cup (IF n.title > MaxTitleLength THEN {"Title too long"} ELSE {})
    \cup (IF n.message > MaxMessageLength THEN {"Message too long"} ELSE {})

\* the validationErrors main collects: the positions with errors
MainValidationErrors(ns) == {k \in 1..Len(ns) : ValidateNotification(ns[k]) # {}}

FileNotifications ==
    {Notification(t, ti, m, d) :
        t \in TokenKinds, ti \in {0, MaxTitleLength, MaxTitleLength + 1},
        m \in {MaxMessageLength, MaxMessageLength + 1}, d \in BOOLEAN}

\* --batch-size and --max-retries as main passes them on
MainBatchSizeArgs == {<<1>>, <<DefaultBatchSize>>}
MainMaxRetriesArgs == {<<1>>}

\* main() after loadNotificationsFromFile, before the validation
MainLoaded(ns, obs, omr) ==
    /\ mainPc = "loaded"
    /\ notifications = ns /\ optBatchSize = obs /\ optMaxRetries = omr
    /\ batchSize = DefaultBatchSize /\ maxRetries = DefaultMaxRetries
    /\ pc = "unused" /\ i = 0 /\ batch = <<>> /\ sends = <<>> /\ results = <<>>
    /\ batches = <<>> /\ waits = 0

\* main(): validate every notification; exit(1) on any error, otherwise
\* construct the sender and call sendBatch
MainValidateAndSend ==
    /\ mainPc = "loaded"
    /\ IF MainValidationErrors(notifications) # {}
       THEN /\ mainPc' = "exit1"
            /\ UNCHANGED senderVars
       ELSE /\ batchSize' = OrDefault(optBatchSize, DefaultBatchSize)
            /\ maxRetries' = OrDefault(optMaxRetries, DefaultMaxRetries)
            /\ Iterate(0, batchSize')
            /\ CountWait
            /\ mainPc' = IF pc' = "returned" THEN "exit0" ELSE "sending"
            /\ UNCHANGED <<notifications, optBatchSize, optMaxRetries, results>>
    /\ UNCHANGED <<handlerVars, breakerVars, validatorVars, multicastVars, limiterVars, reportVars, cleanVars, publisherVars,
                   formatVars>>

----------------------------------------------------------------------------
(* Lambda handler *)

\* body.fcmToken: absent, not a string, a string shorter than 10, a string of
\* 10 or more characters that is no FCM token ('invalid-token'), an FCM token
BodyTokenKinds == {"missing", "number", "short", "illformed", "string"}

\* event.body: malformed JSON, the JSON null, or an object with the kind of
\* its fcmToken and the lengths of its title and message (0: absent)
Bodies ==
    {[json |-> "malformed"], [json |-> "null"]}
    \cup {[json |-> "object", fcmToken |-> t, title |-> ti, message |-> m] :
            t \in BodyTokenKinds, ti \in {0, MaxTitleLength, MaxTitleLength + 1},
            m \in {0, MaxMessageLength, MaxMessageLength + 1}}

\* validateInput(body) for an object body: the set of its error messages
ValidateInput(body) ==
    (IF body.fcmToken = "missing" THEN {"Missing FCM token"}
     ELSE IF body.fcmToken \in {"number", "short"} THEN {"Invalid FCM token format"}
     ELSE {})
    \cup (IF body.title = 0 THEN {"Missing notification title"}
          ELSE IF body.title > MaxTitleLength THEN {"Title too long"} ELSE {})
    \cup (IF body.message = 0 THEN {"Missing notification message"}
          ELSE IF body.message > MaxMessageLength THEN {"Message too long"} ELSE {})

HandlerReady(body) ==
    /\ hPc = "ready" /\ hBody = body /\ hStatus = 0 /\ hPublished = 0 /\ hMetrics = 0
    /\ hSns = "none" /\ hSuccess = "none" /\ hMetricFailed = FALSE

\* faulty variant: a body is published unless its token is missing
HandlerRejectsOnlyMissingToken(body) == body.fcmToken = "missing"

\* the handler's test of validateInput's result: validationErrors.length > 0
HandlerRejects(body) == ValidateInput(body) # {}

\* exports.handler up to its first await: the parse, the validation and
\* either a metric before the 400 response or the publish; validateInput
\* throws on a null body, which takes the handler to its outer catch
HandlerInvoke ==
    /\ hPc = "ready"
    /\ IF hBody.json = "malformed" THEN hPc' = "metric400" /\ hPublished' = hPublished
       ELSE IF hBody.json = "null" THEN hPc' = "metric500" /\ hPublished' = hPublished
       ELSE IF HandlerRejects(hBody) THEN hPc' = "metric400" /\ hPublished' = hPublished
       ELSE hPc' = "publishing" /\ hPublished' = hPublished + 1
    /\ UNCHANGED <<hBody, hStatus, hMetrics, hSns, hSuccess, hMetricFailed>>
    /\ UNCHANGED <<senderVars, mainVars, breakerVars, validatorVars, multicastVars, limiterVars, reportVars, cleanVars, publisherVars,
                   formatVars>>

\* sns.publish settles: three metrics follow a success, the catch block's
\* metric a failure
HandlerPublishSettles(ok) ==
    /\ hPc = "publishing"
    /\ hPc' = IF ok THEN "metrics200" ELSE "metric500"
    /\ hSns' = IF ok THEN "ok" ELSE "failed"
    /\ UNCHANGED <<hBody, hStatus, hPublished, hMetrics, hSuccess, hMetricFailed>>
    /\ UNCHANGED <<senderVars, mainVars, breakerVars, validatorVars, multicastVars, limiterVars, reportVars, cleanVars, publisherVars,
                   formatVars>>

\* faulty variant: every response carries statusCode 200
ResponseStatusAlways200(path) == 200

\* the statusCode of the response returned after the metrics of a path
ResponseStatus(path) == IF path = "metric400" THEN 400 ELSE 200

\* the success flag of the response returned after the metrics of a path
ResponseSuccess(path) == IF path = "metrics200" THEN "true" ELSE "false"

\* faulty variant: putMetric lets the failure of putMetricData through
PutMetricRethrows(ok) == IF ok THEN "fulfilled" ELSE "rejected"

\* how the promise of metrics.putMetric settles when putMetricData has
\* succeeded (ok) or failed: the catch block logs the failure
PutMetric(ok) == "fulfilled"

\* cloudwatch.putMetricData settles; putMetric swallows its failure.  The
\* response follows the last metric of the path.  In the outer catch the
\* log call after the metric reads `body`, which is declared inside the try
\* block and is not in scope there: the ReferenceError leaves the catch
\* block before its return, and the handler's promise rejects.
HandlerMetricSettles(ok) ==
    /\ hPc \in {"metric400", "metric500", "metrics200"}
    /\ hMetrics' = hMetrics + 1
    /\ hMetricFailed' = (hMetricFailed \/ ~ok)
    /\ IF PutMetric(ok) = "rejected" /\ hPc # "metric500"
       \* an await that throws inside the try block: the outer catch
       THEN hPc' = "metric500" /\ UNCHANGED <<hStatus, hSuccess>>
       ELSE IF hPc = "metrics200" /\ hMetrics' < 3
       THEN UNCHANGED <<hPc, hStatus, hSuccess>>
       ELSE IF hPc = "metric500"
       THEN hPc' = "rejected" /\ UNCHANGED <<hStatus, hSuccess>>
       ELSE /\ hPc' = "done"
            /\ hStatus' = ResponseStatus(hPc)
            /\ hSuccess' = ResponseSuccess(hPc)
    /\ UNCHANGED <<hBody, hPublished, hSns>>
    /\ UNCHANGED <<senderVars, mainVars, breakerVars, validatorVars, multicastVars, limiterVars, reportVars, cleanVars, publisherVars,
                   formatVars>>

----------------------------------------------------------------------------
(* CircuitBreaker *)

Callers == 1..NumCallers

IdleCaller == [st |-> "idle", via |-> "none"]

\* new CircuitBreaker(), with as many callers as may use it concurrently
BreakerReady ==
    /\ state = "CLOSED" /\ failureCount = 0 /\ lastFailureTime = -1 /\ now = 0
    /\ callers = [c \in Callers |-> IdleCaller]
    /\ callsMade = 0 /\ lastCall = "none" /\ consecutiveFailures = 0
    /\ windowFailures = 0

\* faulty variant: the cooldown is counted from the start of the clock
CooldownElapsedSinceStart == now > Timeout

\* the test of call() while OPEN: Date.now() - this.lastFailureTime > this.timeout
CooldownElapsed == now - lastFailureTime > Timeout

\* call(operation) up to its await: it throws while OPEN within the cooldown,
\* and otherwise invokes the operation (as the probe when it leaves OPEN)
Call(c) ==
    /\ callers[c].st = "idle"
    /\ callsMade < MaxCalls
    /\ callsMade' = callsMade + 1
    /\ IF state = "OPEN" /\ ~CooldownElapsed
       THEN /\ lastCall' = "open"
            /\ UNCHANGED <<state, callers>>
       ELSE /\ state' = IF state = "OPEN" THEN "HALF_OPEN" ELSE state
            /\ callers' = [callers EXCEPT ![c] = [st |-> "inOp", via |-> state']]
            /\ UNCHANGED lastCall
    /\ UNCHANGED <<failureCount, lastFailureTime, now, consecutiveFailures,
                   windowFailures>>
    /\ UNCHANGED <<senderVars, mainVars, handlerVars, validatorVars, multicastVars, limiterVars, reportVars, cleanVars, publisherVars,
                   formatVars>>

\* faulty variant: a success closes the breaker and keeps the failure count
OnSuccessKeepsCount ==
    /\ failureCount' = failureCount
    /\ state' = "CLOSED"
    /\ UNCHANGED lastFailureTime

OnSuccess ==
    /\ failureCount' = 0
    /\ state' = "CLOSED"
    /\ UNCHANGED lastFailureTime

\* faulty variant: the breaker opens only once the count exceeds the threshold
OnFailureAboveThreshold ==
    /\ failureCount' = failureCount + 1
    /\ lastFailureTime' = now
    /\ state' = IF failureCount' > Threshold THEN "OPEN" ELSE state

OnFailure ==
    /\ failureCount' = failureCount + 1
    /\ lastFailureTime' = now
    /\ state' = IF failureCount' >= Threshold THEN "OPEN" ELSE state

\* the operation of caller c settles: onSuccess and the result, or onFailure
\* and the error
OperationSettles(c, ok) ==
    /\ callers[c].st = "inOp"
    /\ callers' = [callers EXCEPT ![c] = IdleCaller]
    /\ IF ok THEN OnSuccess ELSE OnFailure
    /\ lastCall' = IF ok THEN "ok" ELSE "fail"
    /\ consecutiveFailures' = IF ok THEN 0 ELSE consecutiveFailures + 1
    /\ windowFailures' = IF state # "CLOSED" /\ state' = "CLOSED" THEN 0
                         ELSE IF ok THEN windowFailures ELSE windowFailures + 1
    /\ UNCHANGED <<now, callsMade>>
    /\ UNCHANGED <<senderVars, mainVars, handlerVars, validatorVars, multicastVars, limiterVars, reportVars, cleanVars, publisherVars,
                   formatVars>>

\* time passes
Tick ==
    /\ now < MaxTime
    /\ now' = now + 1
    /\ UNCHANGED <<state, failureCount, lastFailureTime, callers, callsMade, lastCall,
                   consecutiveFailures, windowFailures>>
    /\ UNCHANGED <<senderVars, mainVars, handlerVars, validatorVars, multicastVars, limiterVars, reportVars, cleanVars, publisherVars,
                   formatVars>>

----------------------------------------------------------------------------
(* FCMTokenValidator *)

\* a token: null, a number, or a string with its length, whether all its
\* characters are in [A-Za-z0-9_:.-] and whether it starts as
\* [A-Za-z0-9_-]+:[A-Za-z0-9_-]+ ; the empty string passes neither test
NonStringTokens == {[type |-> "null"], [type |-> "number"]}

StringToken(len, charsOk, prefixOk) ==
    [type |-> "string", len |-> len, charsOk |-> charsOk, prefixOk |-> prefixOk]

TokenLengths == {0, MinTokenLength - 1, MinTokenLength, MaxTokenLength,
                 MaxTokenLength + 1}

StringTokens ==
    {StringToken(l, c, p) : l \in TokenLengths \ {0}, c \in BOOLEAN, p \in BOOLEAN}
    \cup {StringToken(0, FALSE, FALSE)}

\* the elements tried in the tokens list: the non-strings, the empty string,
\* a short token, a token with a character outside the set, a well-formed one
ValidatorTokens ==
    NonStringTokens
    \cup {StringToken(0, FALSE, FALSE), StringToken(MinTokenLength - 1, TRUE, TRUE),
          StringToken(MinTokenLength, FALSE, TRUE),
          StringToken(MinTokenLength, TRUE, TRUE)}

\* validateTokenFormat(token).errors, as a set
ValidateTokenFormat(token) ==
    IF token.type # "string" \/ token.len = 0
    THEN {"Token must be a non-empty string"}
    ELSE (IF token.len < MinTokenLength THEN {"Token too short"}
          ELSE IF token.len > MaxTokenLength THEN {"Token too long"} ELSE {})
         \cup (IF ~token.charsOk THEN {"Token contains invalid characters"} ELSE {})
         \cup (IF ~token.prefixOk THEN {"Token does not match expected FCM format"}
               ELSE {})

\* { batchSize = 10, delay = 100 } = options: the default replaces an absent
\* option only
DestructureDefault(opt, d) == IF opt = <<>> THEN d ELSE opt[1]

ValidatorBatchSizeOptions == {<<>>} \cup {<<n>> : n \in 0..MaxBatchOpt}
ValidatorDelayOptions == {<<>>, <<0>>}

ValidatorIdle ==
    /\ vTokens = <<>> /\ vInitialized = FALSE
    /\ vBatchSize = DefaultValidatorBatchSize /\ vDelay = DefaultValidatorDelay
    /\ vPc = "unused" /\ vI = 0 /\ vChecks = <<>> /\ vResults = <<>>
    /\ vSendCalls = <<>>

\* new FCMTokenValidator(serviceAccountPath), then the arguments of the
\* validateTokens call to come
ValidatorReady(tokens, initialized, obs, od) ==
    /\ vTokens = tokens /\ vInitialized = initialized
    /\ vBatchSize = DestructureDefault(obs, DefaultValidatorBatchSize)
    /\ vDelay = DestructureDefault(od, DefaultValidatorDelay)
    /\ vPc = "ready" /\ vI = 0 /\ vChecks = <<>> /\ vResults = <<>>
    /\ vSendCalls = [p \in 1..Len(tokens) |-> 0]

\* validateToken(vTokens[p]) up to its first await that waits for the
\* provider: token.substring(0, 20) throws on a token that is not a string;
\* validateTokenConnectivity returns at once when Firebase is not initialized
ValidateToken(p) ==
    IF ValidateTokenFormat(vTokens[p]) # {}
    THEN IF vTokens[p].type # "string"
         THEN [idx |-> p, st |-> "rejected", status |-> "none"]
         ELSE [idx |-> p, st |-> "fulfilled", status |-> "INVALID_FORMAT"]
    ELSE IF ~vInitialized
         THEN [idx |-> p, st |-> "fulfilled", status |-> "UNKNOWN"]
         ELSE [idx |-> p, st |-> "connecting", status |-> "none"]

\* the loop test of validateTokens at index ni, and the batch of an iteration
ValidatorIterate(ni) ==
    /\ vI' = ni
    /\ IF ni < Len(vTokens)
       THEN LET b == Slice([p \in 1..Len(vTokens) |-> p], ni, ni + vBatchSize)
                checks == [k \in 1..Len(b) |-> ValidateToken(b[k])]
            IN  /\ vChecks' = checks
                /\ vSendCalls' =
                       [p \in 1..Len(vTokens) |->
                          IF \E k \in 1..Len(b) :
                                 b[k] = p /\ checks[k].st = "connecting"
                          THEN vSendCalls[p] + 1 ELSE vSendCalls[p]]
                /\ vPc' = "awaitAll"
       ELSE /\ vPc' = "returned"
            /\ UNCHANGED <<vChecks, vSendCalls>>

ValidatorConfig == <<vTokens, vInitialized, vBatchSize, vDelay>>

\* validateTokens(tokens, options) is called
ValidateTokens ==
    /\ vPc = "ready"
    /\ ValidatorIterate(0)
    /\ UNCHANGED <<ValidatorConfig, vResults>>
    /\ UNCHANGED <<senderVars, mainVars, handlerVars, breakerVars, multicastVars, limiterVars, reportVars, cleanVars, publisherVars,
                   formatVars>>

\* messaging.send(message, true) settles for the k-th token of the batch
ConnectivitySettles(k, ok) ==
    /\ k \in 1..Len(vChecks)
    /\ vChecks[k].st = "connecting"
    /\ vChecks' = [vChecks EXCEPT ![k].st = "fulfilled",
                                  ![k].status = IF ok THEN "VALID" ELSE "INVALID_TOKEN"]
    /\ UNCHANGED <<ValidatorConfig, vPc, vI, vResults, vSendCalls>>
    /\ UNCHANGED <<senderVars, mainVars, handlerVars, breakerVars, multicastVars, limiterVars, reportVars, cleanVars, publisherVars,
                   formatVars>>

\* the await of Promise.all ends: with the first rejection, or with all the
\* results, which are pushed; then the delay or the next iteration
ValidatorPromiseAllSettles ==
    /\ vPc = "awaitAll"
    /\ IF \E k \in 1..Len(vChecks) : vChecks[k].st = "rejected"
       THEN /\ vPc' = "rejected"
            /\ UNCHANGED <<vI, vChecks, vResults, vSendCalls>>
       ELSE /\ \A k \in 1..Len(vChecks) : vChecks[k].st = "fulfilled"
            /\ vResults' = vResults \o [k \in 1..Len(vChecks) |->
                                          [idx |-> vChecks[k].idx,
                                           status |-> vChecks[k].status]]
            /\ IF vI + vBatchSize < Len(vTokens) /\ vDelay > 0
               THEN vPc' = "delay" /\ UNCHANGED <<vI, vChecks, vSendCalls>>
               ELSE ValidatorIterate(vI + vBatchSize)
    /\ UNCHANGED ValidatorConfig
    /\ UNCHANGED <<senderVars, mainVars, handlerVars, breakerVars, multicastVars, limiterVars, reportVars, cleanVars, publisherVars,
                   formatVars>>

\* the rate limiting delay between two batches is over
ValidatorDelayElapsed ==
    /\ vPc = "delay"
    /\ ValidatorIterate(vI + vBatchSize)
    /\ UNCHANGED <<ValidatorConfig, vResults>>
    /\ UNCHANGED <<senderVars, mainVars, handlerVars, breakerVars, multicastVars, limiterVars, reportVars, cleanVars, publisherVars,
                   formatVars>>

----------------------------------------------------------------------------
(* sendBatchNotifications (optimization guide) and sendNotificationsBatch *)
(* (Firebase runbook): the same two loops; the second pushes the response  *)
(* itself and does not process the failed tokens                           *)

MulticastFunctions == {"sendBatchNotifications", "sendNotificationsBatch"}

MulticastBatchSizeOptions == {<<>>} \cup {<<n>> : n \in 0..MaxBatchOpt}

\* what the provider answers for one token of a multicast: delivered, an
\* invalid or unregistered token, a transient error (unavailable, throttled),
\* or a token that has a canonical replacement
TokenOutcomes == {"success", "invalid", "transient", "canonical"}

MulticastIdle ==
    /\ mcFn = "sendBatchNotifications"
    /\ mcTokens = <<>> /\ mcBatchSize = DefaultMulticastBatchSize
    /\ mcBatches = <<>> /\ mcB = 0 /\ mcPc = "unused" /\ mcResults = <<>>
    /\ mcRemoved = {}

\* the arguments of the sendBatchNotifications call to come; the tokens are
\* named by their positions
MulticastReady(fn, n, obs) ==
    /\ mcFn = fn
    /\ mcTokens = [p \in 1..n |-> p]
    /\ mcBatchSize = DestructureDefault(obs, DefaultMulticastBatchSize)
    /\ mcBatches = <<>> /\ mcB = 0 /\ mcPc = "ready" /\ mcResults = <<>>
    /\ mcRemoved = {}

\* the batches array after the first loop, for a batchSize >= 1
MulticastBatches ==
    LET count == (Len(mcTokens) + mcBatchSize - 1) \div mcBatchSize
    IN  [j \in 1..count |->
            Slice(mcTokens, (j - 1) * mcBatchSize, j * mcBatchSize)]

MulticastConfig == <<mcFn, mcTokens, mcBatchSize>>

\* the for...of loop reaches batch j, or the end of the batches
MulticastGoto(j, bs) ==
    /\ mcB' = j
    /\ mcPc' = IF j <= Len(bs) THEN "sending" ELSE "returned"

\* sendBatchNotifications(tokens, message, batchSize) up to its first await;
\* with a batchSize <= 0 the first loop never ends (i never passes
\* tokens.length)
SendBatchNotifications ==
    /\ mcPc = "ready"
    /\ IF mcTokens # <<>> /\ mcBatchSize <= 0
       THEN mcPc' = "hung" /\ UNCHANGED <<mcBatches, mcB>>
       ELSE /\ mcBatches' = IF mcTokens = <<>> THEN <<>> ELSE MulticastBatches
            /\ MulticastGoto(1, mcBatches')
    /\ UNCHANGED <<MulticastConfig, mcResults, mcRemoved>>
    /\ UNCHANGED <<senderVars, mainVars, handlerVars, breakerVars, validatorVars, limiterVars, reportVars, cleanVars, publisherVars,
                   formatVars>>

\* faulty variant: the catch block counts the batch as delivered
BatchFailedEntryAsDelivered ==
    [batchNo |-> mcB, batch |-> Len(mcBatches[mcB]),
     success |-> Len(mcBatches[mcB]), failure |-> 0, responses |-> <<>>,
     error |-> TRUE]

\* the results entry of the catch block
BatchFailedEntry ==
    [batchNo |-> mcB, batch |-> Len(mcBatches[mcB]), success |-> 0,
     failure |-> Len(mcBatches[mcB]), responses |-> <<>>, error |-> TRUE]

\* the failedTokens array built from a response
FailedTokens(b, responses) ==
    {[token |-> b[k], error |-> responses[k]] :
        k \in {l \in 1..Len(b) : responses[l] # "success"}}

\* sendMulticast fulfils with one response per token of the batch: the
\* entry is pushed, and the failed tokens go to removeInvalidTokens
MulticastResponds(responses) ==
    /\ mcPc = "sending"
    /\ Len(responses) = Len(mcBatches[mcB])
    /\ LET succ == Cardinality({k \in 1..Len(responses) : responses[k] = "success"})
           fail == Len(responses) - succ
       IN  /\ mcResults' = Append(mcResults,
                  [batchNo |-> mcB, batch |-> Len(mcBatches[mcB]), success |-> succ,
                   failure |-> fail, responses |-> responses, error |-> FALSE])
           /\ IF fail > 0 /\ mcFn = "sendBatchNotifications"
              THEN /\ mcRemoved' = mcRemoved
                                     \cup FailedTokens(mcBatches[mcB], responses)
                   /\ mcPc' = "removing"
              ELSE mcPc' = "delay" /\ UNCHANGED mcRemoved
    /\ UNCHANGED <<MulticastConfig, mcBatches, mcB>>
    /\ UNCHANGED <<senderVars, mainVars, handlerVars, breakerVars, validatorVars, limiterVars, reportVars, cleanVars, publisherVars,
                   formatVars>>

\* sendMulticast rejects: the catch block pushes its entry and the loop
\* goes on with the next batch
MulticastThrows ==
    /\ mcPc = "sending"
    /\ mcResults' = Append(mcResults, BatchFailedEntry)
    /\ MulticastGoto(mcB + 1, mcBatches)
    /\ UNCHANGED <<MulticastConfig, mcBatches, mcRemoved>>
    /\ UNCHANGED <<senderVars, mainVars, handlerVars, breakerVars, validatorVars, limiterVars, reportVars, cleanVars, publisherVars,
                   formatVars>>

\* removeInvalidTokens settles; its await is inside the try block, so its
\* rejection runs the same catch block
RemoveInvalidTokensSettles(ok) ==
    /\ mcPc = "removing"
    /\ IF ok
       THEN mcPc' = "delay" /\ UNCHANGED <<mcB, mcResults>>
       ELSE /\ mcResults' = Append(mcResults, BatchFailedEntry)
            /\ MulticastGoto(mcB + 1, mcBatches)
    /\ UNCHANGED <<MulticastConfig, mcBatches, mcRemoved>>
    /\ UNCHANGED <<senderVars, mainVars, handlerVars, breakerVars, validatorVars, limiterVars, reportVars, cleanVars, publisherVars,
                   formatVars>>

\* the 100 ms wait at the end of the try block is over
MulticastDelayElapsed ==
    /\ mcPc = "delay"
    /\ MulticastGoto(mcB + 1, mcBatches)
    /\ UNCHANGED <<MulticastConfig, mcBatches, mcResults, mcRemoved>>
    /\ UNCHANGED <<senderVars, mainVars, handlerVars, breakerVars, validatorVars, limiterVars, reportVars, cleanVars, publisherVars,
                   formatVars>>

----------------------------------------------------------------------------
(* checkRateLimit *)

LimiterIdle ==
    /\ rlEntry = <<>> /\ rlMaxRequests = 0 /\ rlNow = 0 /\ rlCalls = -1
    /\ rlLast = "none" /\ rlAccepted = 0

\* an empty rateLimit map, and the maxRequests the calls to come will pass
LimiterReady(maxRequests) ==
    /\ rlEntry = <<>> /\ rlMaxRequests = maxRequests /\ rlNow = 0 /\ rlCalls = 0
    /\ rlLast = "none" /\ rlAccepted = 0

\* the client object after the window test: the stored one or a new one,
\* reset when its window is over
ClientAfterReset ==
    LET client == IF rlEntry = <<>>
                  THEN [count |-> 0, resetTime |-> rlNow + Window]
                  ELSE rlEntry[1]
    IN  IF rlNow > client.resetTime
        THEN [count |-> 0, resetTime |-> rlNow + Window]
        ELSE client

\* whether the call resets the window: now > client.resetTime on the
\* stored client
WindowReset == rlEntry # <<>> /\ rlNow > rlEntry[1].resetTime

\* faulty variant: a call is still accepted when the count has reached
\* maxRequests
HasCapacityInclusive(client) == client.count <= rlMaxRequests

\* the negation of the test that throws: client.count >= maxRequests
HasCapacity(client) == client.count < rlMaxRequests

\* checkRateLimit(clientId, maxRequests, windowMs): it returns true, or it
\* throws 'Rate limit exceeded' at once; a reset done on the stored object
\* stays when the call throws
CheckRateLimit ==
    /\ rlCalls >= 0 /\ rlCalls < MaxCalls
    /\ rlCalls' = rlCalls + 1
    /\ IF HasCapacity(ClientAfterReset)
       THEN /\ rlEntry' = <<[ClientAfterReset EXCEPT !.count = @ + 1]>>
            /\ rlLast' = "ok"
            /\ rlAccepted' = IF WindowReset THEN 1 ELSE rlAccepted + 1
       ELSE /\ rlEntry' = IF rlEntry = <<>> THEN <<>> ELSE <<ClientAfterReset>>
            /\ rlLast' = "exceeded"
            /\ rlAccepted' = IF WindowReset THEN 0 ELSE rlAccepted
    /\ UNCHANGED <<rlMaxRequests, rlNow>>
    /\ UNCHANGED <<senderVars, mainVars, handlerVars, breakerVars, validatorVars, multicastVars, reportVars, cleanVars, publisherVars,
                   formatVars>>

\* time passes
LimiterTick ==
    /\ rlCalls >= 0 /\ rlNow < MaxTime
    /\ rlNow' = rlNow + 1
    /\ UNCHANGED <<rlEntry, rlMaxRequests, rlCalls, rlLast, rlAccepted>>
    /\ UNCHANGED <<senderVars, mainVars, handlerVars, breakerVars, validatorVars, multicastVars, reportVars, cleanVars, publisherVars,
                   formatVars>>

----------------------------------------------------------------------------
(* validateAndCleanTokens: the sendMulticast version of                *)
(* optimization-strategies.md, the token-by-token version of           *)
(* firebase-issues.md                                                  *)

CleanFunctions == {"sendMulticast", "sendToSingleToken"}

\* what the provider answers for a token of the dry-run multicast: success,
\* an invalid-registration-token or registration-token-not-registered
\* error, an invalid-argument error naming a canonical token that
\* extractCanonicalToken finds or does not find, any other error
MulticastResponses == {"success", "invalid", "canonical", "canonicalNone", "other"}

\* how sendToSingleToken ends for a token: failure === 0, an
\* InvalidRegistration or NotRegistered error, any other error, a throw
SingleTokenOutcomes == {"success", "invalid", "other", "throws"}

\* the numbers of tokens tried: few, and one more than the multicast limit
CleanCounts(fn) ==
    0..MaxCleanTokens
    \cup (IF fn = "sendMulticast" THEN {ValidationLimit + 1} ELSE {})

\* tokens.slice(0, 500).length
SliceLength(n) == IF n < ValidationLimit THEN n ELSE ValidationLimit

\* response.responses: one response per token of the slice
ResponsesFor(n) ==
    LET free == IF n < MaxCleanTokens THEN n ELSE MaxCleanTokens IN
    {[k \in 1..SliceLength(n) |-> IF k <= free THEN h[k] ELSE "success"] :
        h \in [1..free -> MulticastResponses]}

CleanIdle ==
    /\ vcFn = "none" /\ vcCount = 0 /\ vcPc = "unused" /\ vcI = 0
    /\ vcValid = {} /\ vcInvalid = {} /\ vcCanonical = {}
    /\ vcRemoved = {} /\ vcReplaced = {}

\* the tokens argument of the call to come
CleanReady(fn, n) ==
    /\ vcFn = fn /\ vcCount = n /\ vcPc = "ready" /\ vcI = 0
    /\ vcValid = {} /\ vcInvalid = {} /\ vcCanonical = {}
    /\ vcRemoved = {} /\ vcReplaced = {}

CleanConfig == <<vcFn, vcCount>>

\* if (invalidTokens.length > 0) await removeInvalidTokens(invalidTokens)
RemoveIfAny(invalid) ==
    IF invalid # {}
    THEN vcPc' = "removeInvalidTokens" /\ vcRemoved' = invalid
    ELSE vcPc' = "returned" /\ vcRemoved' = vcRemoved

\* the for...of loop of the token-by-token version at token j
CleanGoto(j, invalid) ==
    /\ vcI' = j
    /\ IF j <= vcCount
       THEN vcPc' = "sendToSingleToken" /\ vcRemoved' = vcRemoved
       ELSE RemoveIfAny(invalid)

\* validateAndCleanTokens(tokens) up to its first await
ValidateAndCleanTokens ==
    /\ vcPc = "ready"
    /\ IF vcFn = "sendMulticast"
       THEN vcPc' = "sendMulticast" /\ UNCHANGED <<vcI, vcRemoved>>
       ELSE CleanGoto(1, {})
    /\ UNCHANGED <<CleanConfig, vcValid, vcInvalid, vcCanonical, vcReplaced>>
    /\ UNCHANGED <<senderVars, mainVars, handlerVars, breakerVars, validatorVars, multicastVars, limiterVars, reportVars, publisherVars,
                   formatVars>>

\* sendMulticast resolves: the forEach over response.responses, then the
\* code up to the next await or to the return
SendMulticastResponds(resps) ==
    /\ vcPc = "sendMulticast"
    /\ LET idxs == DOMAIN resps
           valid == {k \in idxs : resps[k] = "success"}
           invalid == {k \in idxs : resps[k] = "invalid"}
           canonical == {k \in idxs : resps[k] = "canonical"}
       IN  /\ vcValid' = valid
           /\ vcInvalid' = invalid
           /\ vcCanonical' = canonical
           /\ IF canonical # {}
              THEN /\ vcPc' = "updateCanonicalTokens"
                   /\ vcReplaced' = canonical
                   /\ UNCHANGED vcRemoved
              ELSE RemoveIfAny(invalid) /\ UNCHANGED vcReplaced
    /\ UNCHANGED <<CleanConfig, vcI>>
    /\ UNCHANGED <<senderVars, mainVars, handlerVars, breakerVars, validatorVars, multicastVars, limiterVars, reportVars, publisherVars,
                   formatVars>>

\* sendMulticast rejects: the catch block logs, validTokens is returned
SendMulticastThrows ==
    /\ vcPc = "sendMulticast"
    /\ vcPc' = "returned"
    /\ UNCHANGED <<CleanConfig, vcI, vcValid, vcInvalid, vcCanonical, vcRemoved,
                   vcReplaced>>
    /\ UNCHANGED <<senderVars, mainVars, handlerVars, breakerVars, validatorVars, multicastVars, limiterVars, reportVars, publisherVars,
                   formatVars>>

\* updateCanonicalTokens settles: the removal follows, or the catch block
UpdateCanonicalTokensSettles(ok) ==
    /\ vcPc = "updateCanonicalTokens"
    /\ IF ok THEN RemoveIfAny(vcInvalid)
       ELSE vcPc' = "returned" /\ UNCHANGED vcRemoved
    /\ UNCHANGED <<CleanConfig, vcI, vcValid, vcInvalid, vcCanonical, vcReplaced>>
    /\ UNCHANGED <<senderVars, mainVars, handlerVars, breakerVars, validatorVars, multicastVars, limiterVars, reportVars, publisherVars,
                   formatVars>>

\* removeInvalidTokens settles: validTokens is returned; a rejection is
\* caught in the sendMulticast version and rejects the other one
CleanRemovalSettles(ok) ==
    /\ vcPc = "removeInvalidTokens"
    /\ vcPc' = IF ok \/ vcFn = "sendMulticast" THEN "returned" ELSE "rejected"
    /\ UNCHANGED <<CleanConfig, vcI, vcValid, vcInvalid, vcCanonical, vcRemoved,
                   vcReplaced>>
    /\ UNCHANGED <<senderVars, mainVars, handlerVars, breakerVars, validatorVars, multicastVars, limiterVars, reportVars, publisherVars,
                   formatVars>>

\* sendToSingleToken settles for token vcI: the body of the loop, then the
\* next token or the code after the loop
SendToSingleTokenSettles(o) ==
    /\ vcPc = "sendToSingleToken"
    /\ vcValid' = IF o = "success" THEN vcValid \cup {vcI} ELSE vcValid
    /\ vcInvalid' = IF o \in {"invalid", "throws"} THEN vcInvalid \cup {vcI}
                    ELSE vcInvalid
    /\ CleanGoto(vcI + 1, vcInvalid')
    /\ UNCHANGED <<CleanConfig, vcCanonical, vcReplaced>>
    /\ UNCHANGED <<senderVars, mainVars, handlerVars, breakerVars, validatorVars, multicastVars, limiterVars, reportVars, publisherVars,
                   formatVars>>

----------------------------------------------------------------------------
(* publishWithRetry of the SNS throttling runbook *)

PublishRetriesOptions == {<<>>} \cup {<<n>> : n \in 0..MaxPublishRetries}

\* how an sns.publish call ends: with a result, with a Throttling error,
\* with an error of another code
SnsOutcomes == {"ok", "Throttling", "other"}

RECURSIVE Pow2(_)
Pow2(n) == IF n = 0 THEN 1 ELSE 2 * Pow2(n - 1)

\* Math.pow(2, attempt) * 1000 ms, in seconds
BackoffDelay(attempt) == Pow2(attempt)

PublisherIdle ==
    /\ pwMaxRetries = DefaultPublishRetries /\ pwAttempt = 0 /\ pwPc = "unused"
    /\ pwRemaining = 0 /\ pwPublishes = 0 /\ pwLast = "none" /\ pwResult = "none"

\* the maxRetries argument of the call to come
PublisherReady(omr) ==
    /\ pwMaxRetries = DestructureDefault(omr, DefaultPublishRetries)
    /\ pwAttempt = 0 /\ pwPc = "ready"
    /\ pwRemaining = 0 /\ pwPublishes = 0 /\ pwLast = "none" /\ pwResult = "none"

\* the loop test at attempt a: the publish of the body, or the end of the
\* function body, which resolves the promise with undefined
PublishAttempt(a) ==
    /\ pwAttempt' = a
    /\ IF a <= pwMaxRetries
       THEN /\ pwPc' = "publishing"
            /\ pwPublishes' = pwPublishes + 1
            /\ UNCHANGED pwResult
       ELSE /\ pwPc' = "settled"
            /\ pwResult' = "undefined"
            /\ UNCHANGED pwPublishes

\* publishWithRetry(params, maxRetries) is called
PublishWithRetry ==
    /\ pwPc = "ready"
    /\ PublishAttempt(1)
    /\ UNCHANGED <<pwMaxRetries, pwRemaining, pwLast>>
    /\ UNCHANGED <<senderVars, mainVars, handlerVars, breakerVars, validatorVars, multicastVars, limiterVars, reportVars, cleanVars,
                   formatVars>>

\* sns.publish settles: the result is returned, or the catch block starts
\* the backoff wait or throws the error
SnsPublishSettles(o) ==
    /\ pwPc = "publishing"
    /\ pwLast' = o
    /\ IF o = "ok"
       THEN pwPc' = "settled" /\ pwResult' = "result" /\ UNCHANGED pwRemaining
       ELSE IF o = "Throttling" /\ pwAttempt < pwMaxRetries
       THEN /\ pwPc' = "backoff"
            /\ pwRemaining' = BackoffDelay(pwAttempt)
            /\ UNCHANGED pwResult
       ELSE pwPc' = "settled" /\ pwResult' = o /\ UNCHANGED pwRemaining
    /\ UNCHANGED <<pwMaxRetries, pwAttempt, pwPublishes>>
    /\ UNCHANGED <<senderVars, mainVars, handlerVars, breakerVars, validatorVars, multicastVars, limiterVars, reportVars, cleanVars,
                   formatVars>>

\* a second of the backoff wait passes
BackoffTick ==
    /\ pwPc = "backoff" /\ pwRemaining > 0
    /\ pwRemaining' = pwRemaining - 1
    /\ UNCHANGED <<pwMaxRetries, pwAttempt, pwPc, pwPublishes, pwLast, pwResult>>
    /\ UNCHANGED <<senderVars, mainVars, handlerVars, breakerVars, validatorVars, multicastVars, limiterVars, reportVars, cleanVars,
                   formatVars>>

\* the timer of the backoff wait fires: continue, with attempt++
BackoffElapsed ==
    /\ pwPc = "backoff" /\ pwRemaining = 0
    /\ PublishAttempt(pwAttempt + 1)
    /\ UNCHANGED <<pwMaxRetries, pwRemaining, pwLast>>
    /\ UNCHANGED <<senderVars, mainVars, handlerVars, breakerVars, validatorVars, multicastVars, limiterVars, reportVars, cleanVars,
                   formatVars>>

----------------------------------------------------------------------------
(* The token format checks: validateFCMToken of the notification tester, *)
(* validateTokenFormat of FCMTokenValidator, the fcmToken test of the    *)
(* Lambda handler's validateInput                                        *)

FormatLengths == {MinBodyTokenLength - 1, MinBodyTokenLength} \cup (TokenLengths \ {0})

\* the tokens tried: the non-strings, the empty string, and the strings of
\* the lengths around the limits, with or without a character outside
\* [A-Za-z0-9_:.-], starting or not as [A-Za-z0-9_-]+:[A-Za-z0-9_-]+
FormatTokens ==
    NonStringTokens
    \cup {StringToken(0, FALSE, FALSE)}
    \cup {StringToken(l, c, p) : l \in FormatLengths, c \in BOOLEAN, p \in BOOLEAN}

Verdict(accepted) == IF accepted THEN "accepted" ELSE "rejected"

\* validateFCMToken(token)
ValidateFCMToken(token) ==
    /\ token.type = "string" /\ token.len # 0
    /\ token.len >= MinTokenLength /\ token.len <= MaxTokenLength
    /\ token.charsOk

\* whether validateInput reports no error on body.fcmToken; a non-string
\* is falsy ('Missing FCM token') or fails the typeof test
ValidateInputToken(token) ==
    /\ token.type = "string" /\ token.len # 0
    /\ token.len >= MinBodyTokenLength

FormatIdle ==
    /\ fmPc = "unused" /\ fmToken = [type |-> "null"]
    /\ fmTester = "none" /\ fmValidator = "none" /\ fmHandler = "none"

\* the token the three checks will be given
FormatReady(token) ==
    /\ fmPc = "ready" /\ fmToken = token
    /\ fmTester = "none" /\ fmValidator = "none" /\ fmHandler = "none"

\* the notification tester calls validateFCMToken(token)
CallValidateFCMToken ==
    /\ fmPc = "ready" /\ fmTester = "none"
    /\ fmTester' = Verdict(ValidateFCMToken(fmToken))
    /\ UNCHANGED <<fmPc, fmToken, fmValidator, fmHandler>>
    /\ UNCHANGED <<senderVars, mainVars, handlerVars, breakerVars, validatorVars,
                   multicastVars, limiterVars, reportVars, cleanVars, publisherVars>>

\* the validator calls validateTokenFormat(token): valid is errors.length === 0
CallValidateTokenFormat ==
    /\ fmPc = "ready" /\ fmValidator = "none"
    /\ fmValidator' = Verdict(ValidateTokenFormat(fmToken) = {})
    /\ UNCHANGED <<fmPc, fmToken, fmTester, fmHandler>>
    /\ UNCHANGED <<senderVars, mainVars, handlerVars, breakerVars, validatorVars,
                   multicastVars, limiterVars, reportVars, cleanVars, publisherVars>>

\* the handler calls validateInput on a body with this fcmToken
CallValidateInput ==
    /\ fmPc = "ready" /\ fmHandler = "none"
    /\ fmHandler' = Verdict(ValidateInputToken(fmToken))
    /\ UNCHANGED <<fmPc, fmToken, fmTester, fmValidator>>
    /\ UNCHANGED <<senderVars, mainVars, handlerVars, breakerVars, validatorVars,
                   multicastVars, limiterVars, reportVars, cleanVars, publisherVars>>

----------------------------------------------------------------------------
(* generateSummary of BatchNotificationSender, generateReport of *)
(* FCMTokenValidator                                             *)

\* a result of sendSingleNotification: a success, or a failure with its
\* error message ("": an empty message)
SummaryResults ==
    {[success |-> TRUE, error |-> ""]}
    \cup {[success |-> FALSE, error |-> e] : e \in {"", "transient", "permanent"}}

\* the status of a result of validateToken
ReportStatuses == {"VALID", "INVALID_FORMAT", "INVALID_TOKEN", "UNKNOWN"}

\* results.filter(r => ...).length, for the test that is membership of S
Count(rs, S) == Cardinality({k \in 1..Len(rs) : rs[k] \in S})

\* result.error || 'Unknown error'
ErrorKey(r) == IF r.error = "" THEN "Unknown error" ELSE r.error

\* faulty variant: a failure with an empty message is not counted as failed
GenerateSummarySkipsEmptyError(rs) ==
    [total |-> Len(rs),
     successful |-> Count(rs, {r \in SummaryResults : r.success}),
     failed |-> Count(rs, {r \in SummaryResults : ~r.success /\ r.error # ""}),
     errorCounts |->
        [e \in {ErrorKey(rs[k]) : k \in {l \in 1..Len(rs) : ~rs[l].success}} |->
            Count(rs, {r \in SummaryResults : ~r.success /\ ErrorKey(r) = e})]]

\* generateSummary(results): the counts of summary, and errorCounts
GenerateSummary(rs) ==
    [total |-> Len(rs),
     successful |-> Count(rs, {r \in SummaryResults : r.success}),
     failed |-> Count(rs, {r \in SummaryResults : ~r.success}),
     errorCounts |->
        [e \in {ErrorKey(rs[k]) : k \in {l \in 1..Len(rs) : ~rs[l].success}} |->
            Count(rs, {r \in SummaryResults : ~r.success /\ ErrorKey(r) = e})]]

\* generateReport(results): the counts of report.summary
GenerateReport(rs) ==
    LET valid == Count(rs, {"VALID"})
        invalidFormat == Count(rs, {"INVALID_FORMAT"})
        invalidToken == Count(rs, {"INVALID_TOKEN"})
        unknown == Count(rs, {"UNKNOWN"})
    IN  [total |-> Len(rs), valid |-> valid,
         invalid |-> invalidFormat + invalidToken,
         invalidFormat |-> invalidFormat, invalidToken |-> invalidToken,
         unknown |-> unknown]

ReportIdle == rpFn = "none" /\ rpResults = <<>> /\ rpReport = <<>>

\* the results a call to come will be given
ReportReady(fn, rs) == rpFn = fn /\ rpResults = rs /\ rpReport = <<>>

\* sender.generateSummary(results) is called
CallGenerateSummary ==
    /\ rpFn = "generateSummary" /\ rpReport = <<>>
    /\ rpReport' = <<GenerateSummary(rpResults)>>
    /\ UNCHANGED <<rpFn, rpResults>>
    /\ UNCHANGED <<senderVars, mainVars, handlerVars, breakerVars, validatorVars, multicastVars, limiterVars, cleanVars, publisherVars,
                   formatVars>>

\* validator.generateReport(results) is called
CallGenerateReport ==
    /\ rpFn = "generateReport" /\ rpReport = <<>>
    /\ rpReport' = <<GenerateReport(rpResults)>>
    /\ UNCHANGED <<rpFn, rpResults>>
    /\ UNCHANGED <<senderVars, mainVars, handlerVars, breakerVars, validatorVars, multicastVars, limiterVars, cleanVars, publisherVars,
                   formatVars>>

----------------------------------------------------------------------------
MainIdle == mainPc = "unused"
HandlerIdle ==
    hPc = "unused" /\ hBody = [json |-> "null"] /\ hStatus = 0 /\ hPublished = 0
    /\ hMetrics = 0 /\ hSns = "none" /\ hSuccess = "none" /\ hMetricFailed = FALSE
BreakerIdle ==
    /\ state = "CLOSED" /\ failureCount = 0 /\ lastFailureTime = -1 /\ now = 0
    /\ callers = <<>> /\ callsMade = 0 /\ lastCall = "none"
    /\ consecutiveFailures = 0 /\ windowFailures = 0

(* sendBatch called on a constructed BatchNotificationSender *)

Init ==
    /\ \E ns \in SeqsUpTo(PlainNotifications, MaxLen),
          obs \in BatchSizeOptions, omr \in MaxRetriesOptions :
            Constructor(ns, obs, omr)
    /\ MainIdle /\ HandlerIdle /\ BreakerIdle /\ ValidatorIdle /\ MulticastIdle
    /\ LimiterIdle /\ ReportIdle /\ CleanIdle /\ PublisherIdle /\ FormatIdle

Next ==
    \/ SendBatch
    \/ \E k \in 1..MaxLen, o \in PublishOutcomes : PublishSettles(k, o)
    \/ \E k \in 1..MaxLen : RetryDelayElapsed(k)
    \/ BatchDelayElapsed

Spec == Init /\ [][Next]_vars

(* one request: a run of the CLI main on a loaded file, or one invocation *)
(* of the Lambda handler                                                  *)

RequestInit ==
    \/ /\ \E ns \in SeqsUpTo(FileNotifications, MaxLen),
             obs \in MainBatchSizeArgs, omr \in MainMaxRetriesArgs :
               MainLoaded(ns, obs, omr)
       /\ HandlerIdle /\ BreakerIdle /\ ValidatorIdle /\ MulticastIdle
       /\ LimiterIdle /\ ReportIdle /\ CleanIdle /\ PublisherIdle /\ FormatIdle
    \/ /\ \E body \in Bodies : HandlerReady(body)
       /\ SenderIdle /\ MainIdle /\ BreakerIdle /\ ValidatorIdle /\ MulticastIdle
       /\ LimiterIdle /\ ReportIdle /\ CleanIdle /\ PublisherIdle /\ FormatIdle

RequestNext ==
    \/ MainValidateAndSend
    \/ \E k \in 1..MaxLen, o \in PublishOutcomes : PublishSettles(k, o)
    \/ \E k \in 1..MaxLen : RetryDelayElapsed(k)
    \/ BatchDelayElapsed
    \/ HandlerInvoke
    \/ \E ok \in BOOLEAN : HandlerPublishSettles(ok)
    \/ \E ok \in BOOLEAN : HandlerMetricSettles(ok)

RequestSpec == RequestInit /\ [][RequestNext]_vars

(* one CircuitBreaker shared by concurrent callers *)

BreakerInit ==
    /\ BreakerReady
    /\ SenderIdle /\ MainIdle /\ HandlerIdle /\ ValidatorIdle /\ MulticastIdle
    /\ LimiterIdle /\ ReportIdle /\ CleanIdle /\ PublisherIdle /\ FormatIdle

BreakerNext ==
    \/ \E c \in Callers : Call(c)
    \/ \E c \in Callers, ok \in BOOLEAN : OperationSettles(c, ok)
    \/ Tick

BreakerSpec == BreakerInit /\ [][BreakerNext]_vars

(* one validateTokens call on a constructed FCMTokenValidator *)

ValidatorInit ==
    /\ \E tokens \in SeqsUpTo(ValidatorTokens, MaxTokens), initialized \in BOOLEAN,
          obs \in ValidatorBatchSizeOptions, od \in ValidatorDelayOptions :
            ValidatorReady(tokens, initialized, obs, od)
    /\ SenderIdle /\ MainIdle /\ HandlerIdle /\ BreakerIdle /\ MulticastIdle
    /\ LimiterIdle /\ ReportIdle /\ CleanIdle /\ PublisherIdle /\ FormatIdle

ValidatorNext ==
    \/ ValidateTokens
    \/ \E k \in 1..MaxTokens, ok \in BOOLEAN : ConnectivitySettles(k, ok)
    \/ ValidatorPromiseAllSettles
    \/ ValidatorDelayElapsed

ValidatorSpec == ValidatorInit /\ [][ValidatorNext]_vars

(* one sendBatchNotifications call *)

MulticastInit ==
    /\ \E fn \in MulticastFunctions, n \in 0..MaxTokens,
          obs \in MulticastBatchSizeOptions :
            MulticastReady(fn, n, obs)
    /\ SenderIdle /\ MainIdle /\ HandlerIdle /\ BreakerIdle /\ ValidatorIdle
    /\ LimiterIdle /\ ReportIdle /\ CleanIdle /\ PublisherIdle /\ FormatIdle

MulticastNext ==
    \/ SendBatchNotifications
    \/ \E responses \in SeqsUpTo(TokenOutcomes, MaxTokens) :
           MulticastResponds(responses)
    \/ MulticastThrows
    \/ \E ok \in BOOLEAN : RemoveInvalidTokensSettles(ok)
    \/ MulticastDelayElapsed

MulticastSpec == MulticastInit /\ [][MulticastNext]_vars

(* the calls of checkRateLimit for one client *)

LimiterInit ==
    /\ \E maxRequests \in 1..MaxRequestsOpt : LimiterReady(maxRequests)
    /\ SenderIdle /\ MainIdle /\ HandlerIdle /\ BreakerIdle /\ ValidatorIdle
    /\ MulticastIdle /\ ReportIdle /\ CleanIdle /\ PublisherIdle /\ FormatIdle

LimiterNext ==
    \/ CheckRateLimit
    \/ LimiterTick

LimiterSpec == LimiterInit /\ [][LimiterNext]_vars

(* one call of generateSummary or of generateReport *)

ReportInit ==
    /\ \/ \E rs \in SeqsUpTo(SummaryResults, MaxResults) :
             ReportReady("generateSummary", rs)
       \/ \E rs \in SeqsUpTo(ReportStatuses, MaxResults) :
             ReportReady("generateReport", rs)
    /\ SenderIdle /\ MainIdle /\ HandlerIdle /\ BreakerIdle /\ ValidatorIdle
    /\ MulticastIdle /\ LimiterIdle /\ CleanIdle /\ PublisherIdle /\ FormatIdle

ReportNext ==
    \/ CallGenerateSummary
    \/ CallGenerateReport

ReportSpec == ReportInit /\ [][ReportNext]_vars

(* one validateAndCleanTokens call, of either version *)

CleanInit ==
    /\ \E fn \in CleanFunctions : \E n \in CleanCounts(fn) : CleanReady(fn, n)
    /\ SenderIdle /\ MainIdle /\ HandlerIdle /\ BreakerIdle /\ ValidatorIdle
    /\ MulticastIdle /\ LimiterIdle /\ ReportIdle /\ PublisherIdle /\ FormatIdle

CleanNext ==
    \/ ValidateAndCleanTokens
    \/ \E resps \in ResponsesFor(vcCount) : SendMulticastResponds(resps)
    \/ SendMulticastThrows
    \/ \E ok \in BOOLEAN : UpdateCanonicalTokensSettles(ok)
    \/ \E ok \in BOOLEAN : CleanRemovalSettles(ok)
    \/ \E o \in SingleTokenOutcomes : SendToSingleTokenSettles(o)

CleanSpec == CleanInit /\ [][CleanNext]_vars

(* one publishWithRetry call *)

PublisherInit ==
    /\ \E omr \in PublishRetriesOptions : PublisherReady(omr)
    /\ SenderIdle /\ MainIdle /\ HandlerIdle /\ BreakerIdle /\ ValidatorIdle
    /\ MulticastIdle /\ LimiterIdle /\ ReportIdle /\ CleanIdle /\ FormatIdle

PublisherNext ==
    \/ PublishWithRetry
    \/ \E o \in SnsOutcomes : SnsPublishSettles(o)
    \/ BackoffTick
    \/ BackoffElapsed

PublisherSpec == PublisherInit /\ [][PublisherNext]_vars

(* one token given to the three format checks, in any order *)

FormatInit ==
    /\ \E token \in FormatTokens : FormatReady(token)
    /\ SenderIdle /\ MainIdle /\ HandlerIdle /\ BreakerIdle /\ ValidatorIdle
    /\ MulticastIdle /\ LimiterIdle /\ ReportIdle /\ CleanIdle /\ PublisherIdle

FormatNext ==
    \/ CallValidateFCMToken
    \/ CallValidateTokenFormat
    \/ CallValidateInput

FormatSpec == FormatInit /\ [][FormatNext]_vars

----------------------------------------------------------------------------
(* Claims about BatchNotificationSender, checked under Spec *)

Sum(f) ==
    LET S[k \in 0..Len(f)] == IF k = 0 THEN 0 ELSE S[k - 1] + f[k]
    IN  S[Len(f)]

\* C1: the results list sendBatch returns has exactly one entry per input
\* notification: none is lost and none appears twice, even after retries.
C1_ResultsCoverInputExactlyOnce ==
    pc = "returned" =>
        /\ Len(results) = Len(notifications)
        /\ \A p \in 1..Len(notifications) :
               Cardinality({k \in 1..Len(results) : results[k].idx = p}) = 1

\* a returned call of two batches whose last send was retried, with one
\* success and one failure in the results
C1_Witness ==
    /\ pc = "returned"
    /\ Len(notifications) = 2
    /\ Len(batches) = 2
    /\ \E k \in 1..Len(sends) : sends[k].retryCount > 0
    /\ \E k, l \in 1..Len(results) : results[k].success /\ ~results[l].success

\* C2: a notification whose publish fails on every attempt gets at most
\* maxRetries + 1 publish calls and then yields a terminal failure result
\* (its send never ends without a result).
C2_AllFailedYieldsFailureResult ==
    \A k \in 1..Len(sends) :
        sends[k].okCount = 0 =>
            /\ sends[k].attempts <= maxRetries + 1
            /\ sends[k].st # "rejected"
            /\ (sends[k].attempts = maxRetries + 1 /\ sends[k].st # "publishing")
                   => (sends[k].st = "fulfilled" /\ ~sends[k].success)

\* C3: publish failures never make sendBatch reject: a send all of whose
\* publishes failed does not reject the call.
C3_PublishFailureNeverRejects ==
    ~(pc = "rejected" /\ \E k \in 1..Len(sends) :
                             sends[k].st = "rejected" /\ sends[k].okCount = 0)

\* C4: a notification whose last publish failed permanently gets no further
\* publish attempt.
C4_PermanentFailureNeverResent ==
    [][\A k \in 1..Len(sends) :
          (batches' = batches /\ sends[k].error = "permanent")
              => sends'[k].attempts = sends[k].attempts]_vars

\* C5: every batch processed has at most batchSize elements, and when
\* sendBatch is through the sizes of its batches sum to the input's length.
C5_BatchSizeBound ==
    /\ \A j \in 1..Len(batches) : Len(batches[j]) <= batchSize
    /\ pc = "returned" =>
           Sum([j \in 1..Len(batches) |-> Len(batches[j])]) = Len(notifications)

\* C6: the j-th batch is the j-th consecutive slice of batchSize elements of
\* the input (the last one may be shorter), and the k-th returned result is
\* the outcome of the k-th input notification.
C6_OrderPreservingSlices ==
    /\ \A j \in 1..Len(batches) :
           LET first == (j - 1) * batchSize + 1
               last == IF j * batchSize < Len(notifications)
                       THEN j * batchSize ELSE Len(notifications)
           IN  batches[j] = [k \in 1..(last - first + 1) |-> first + k - 1]
    /\ pc = "returned" => \A k \in 1..Len(results) : results[k].idx = k

\* C7: with a configured batch size <= 0 the call fails with a configuration
\* error and no notification is published.
C7_NonPositiveBatchSizeRejected ==
    (optBatchSize # <<>> /\ optBatchSize[1] <= 0) =>
        /\ pc \notin {"awaitAll", "delay", "returned"}
        /\ \A j \in 1..Len(batches) : batches[j] = <<>>

\* the sends of the current batch whose sns.publish call is in flight
InFlight(ss) == {k \in 1..Len(ss) : ss[k].st = "publishing"}

\* C20: the publish calls in flight from one sendBatch call never exceed
\* batchSize, and a batch starts only when every send of the batch before
\* it, retries included, has produced its result.
C20_InFlightBoundedByBatchSize ==
    [][/\ InFlight(sends') # {} => Cardinality(InFlight(sends')) <= batchSize'
       /\ batches' # batches
            => \A k \in 1..Len(sends) : sends[k].st = "fulfilled"]_vars

\* C21: every sendBatch call completes with its results once its publish
\* calls have settled.  As what a finite run can refute: the call never
\* ends by a rejection, and every change of the loop index moves it forward,
\* towards the end of the list.
C21_SendBatchCompletes ==
    [][pc' # "rejected" /\ (i' # i => i' > i)]_vars

\* C22: the waits before the retries of a send grow: the wait before a
\* second or later retry is longer than the wait before the retry that
\* preceded it.
C22_RetryDelaysGrow ==
    [][\A k \in 1..Len(sends) :
          (batches' = batches /\ sends[k].st = "publishing"
           /\ sends[k].retryCount >= 1 /\ sends'[k].st = "retryDelay")
              => sends'[k].delay > sends[k].delay]_vars

\* C24: the configured retry limit is the one applied, 0 included: a
\* sender configured with maxRetries = n retries a notification at most n
\* times.
C24_ConfiguredRetryLimitApplied ==
    optMaxRetries # <<>> =>
        \A k \in 1..Len(sends) : sends[k].retryCount <= optMaxRetries[1]

\* C28: for each notification handed to sendBatch, whatever its fields, at
\* most one publish call succeeds: a notification that has been published is
\* not published again by a retry.
C28_AtMostOnePublishSucceeds ==
    \A k \in 1..Len(sends) : sends[k].okCount <= 1

\* C26: a wait of delayBetweenBatches separates each batch from the next
\* and none follows the last: a batch other than the first starts only out
\* of a wait, as many waits have been started as batches but the last, and
\* a returned call of k >= 1 batches has made exactly k - 1 waits.
C26_OneWaitBetweenBatches ==
    [][/\ (batches' # batches /\ batches # <<>>) => pc = "delay"
       /\ pc' = "returned" => pc # "delay"
       /\ waits' <= Len(batches') /\ Len(batches') <= waits' + 1
       /\ (pc' = "returned" /\ batches' # <<>>)
            => waits' = Len(batches') - 1]_vars

\* a returned call of two batches, with one wait between them
C26_Witness ==
    pc = "returned" /\ Len(batches) = 2 /\ waits = 1 /\ Len(results) = 2

----------------------------------------------------------------------------
(* Claims about the request-level validation, checked under RequestSpec *)

\* C8: when a notification of the input file fails validateNotification the
\* CLI publishes nothing; when the handler's body is malformed JSON or fails
\* validateInput the handler answers 400 and never calls sns.publish.
C8_ValidationFailureAbortsBeforePublish ==
    /\ (mainPc # "unused"
        /\ \E k \in 1..Len(notifications) : ValidateNotification(notifications[k]) # {})
           => /\ mainPc \in {"loaded", "exit1"}
              /\ pc = "unused" /\ sends = <<>> /\ batches = <<>>
    /\ (hPc # "unused"
        /\ (hBody.json = "malformed"
            \/ (hBody.json = "object" /\ ValidateInput(hBody) # {})))
           => /\ hPublished = 0
              /\ hPc \in {"ready", "metric400", "done"}
              /\ hPc = "done" => hStatus = 400

\* the handler has answered a body whose token is too short
C8_Witness ==
    /\ hPc = "done" /\ hStatus = 400 /\ hPublished = 0
    /\ hBody.json = "object" /\ hBody.fcmToken = "short"
    /\ hBody.title = MaxTitleLength /\ hBody.message = MaxMessageLength

\* C14: when sns.publish fails for a valid request the handler still
\* resolves, with statusCode 500: its promise does not reject.
C14_PublishFailureAnswers500 ==
    hSns = "failed" =>
        /\ hPc \in {"metric500", "done"}
        /\ hPc = "done" => hStatus = 500

\* C15: a body whose fcmToken is not a well-formed FCM token is answered
\* with 400 and is never published.
C15_IllFormedTokenRejected ==
    (hPc # "unused" /\ hBody.json = "object" /\ hBody.fcmToken = "illformed")
        => /\ hPublished = 0
           /\ hPc \in {"ready", "metric400", "done"}
           /\ hPc = "done" => hStatus = 400

\* C16: the handler returns 200 exactly when the body parses to an object,
\* validateInput reports no error and sns.publish succeeds; sns.publish has
\* then been called exactly once.
C16_Status200IffPublished ==
    hPc \in {"done", "rejected"} =>
        /\ (hPc = "done" /\ hStatus = 200)
               <=> (hBody.json = "object" /\ ValidateInput(hBody) = {}
                    /\ hSns = "ok")
        /\ hStatus = 200 => hPublished = 1

\* a valid body has been published and answered with 200
C16_Witness ==
    /\ hPc = "done" /\ hStatus = 200 /\ hPublished = 1 /\ hSns = "ok"
    /\ hMetrics = 3
    /\ hBody.json = "object" /\ hBody.fcmToken = "string"
    /\ hBody.title = MaxTitleLength /\ hBody.message = MaxMessageLength

\* the path of the handler that a request and the outcome of its publish
\* select
RequestPath(body, snsOutcome) ==
    IF body.json = "malformed" THEN "metric400"
    ELSE IF body.json = "null" THEN "metric500"
    ELSE IF HandlerRejects(body) THEN "metric400"
    ELSE IF snsOutcome = "ok" THEN "metrics200"
    ELSE "metric500"

\* C35: a failure to emit a metric never changes the handler's response:
\* the status code and the success flag returned, or the rejection of the
\* handler, are those that the request and the outcome of sns.publish
\* select, whether putMetricData has succeeded or failed.
C35_MetricFailureKeepsResponse ==
    /\ hPc = "done" =>
           /\ RequestPath(hBody, hSns) # "metric500"
           /\ hStatus = ResponseStatus(RequestPath(hBody, hSns))
           /\ hSuccess = ResponseSuccess(RequestPath(hBody, hSns))
    /\ hPc = "rejected" => RequestPath(hBody, hSns) = "metric500"

\* a request published and answered 200 although a metric of it has failed
C35_Witness ==
    /\ hPc = "done" /\ hMetricFailed /\ hSns = "ok"
    /\ hStatus = 200 /\ hSuccess = "true"

----------------------------------------------------------------------------
(* Claims about CircuitBreaker, checked under BreakerSpec *)

\* C9: after Threshold consecutive failed calls, a call made before the
\* cooldown has elapsed fails with the circuit-open error and invokes no
\* operation.
C9_CallAfterThresholdFailuresFailsFast ==
    [][(consecutiveFailures >= Threshold /\ now - lastFailureTime <= Timeout
        /\ callsMade' # callsMade)
          => (lastCall' = "open" /\ callers' = callers)]_vars

\* five failed calls, then a sixth that failed fast
C9_Witness ==
    /\ consecutiveFailures = Threshold
    /\ callsMade = Threshold + 1
    /\ lastCall = "open"
    /\ \A c \in Callers : callers[c].st = "idle"

\* C10: while HALF_OPEN a single probe is allowed: at most one operation
\* admitted in HALF_OPEN is in flight.
C10_SingleProbeInHalfOpen ==
    state = "HALF_OPEN" =>
        Cardinality({c \in Callers : callers[c].st = "inOp"
                                      /\ callers[c].via = "HALF_OPEN"}) <= 1

\* C11: when a probe (an operation admitted in HALF_OPEN) settles, its
\* success closes the breaker and its failure opens it: a failed probe never
\* leaves the breaker CLOSED or HALF_OPEN.
C11_ProbeOutcomeDecidesState ==
    [][\A c \in Callers :
          (callers[c].st = "inOp" /\ callers[c].via = "HALF_OPEN"
           /\ callers'[c].st = "idle")
              => /\ lastCall' = "ok" => state' = "CLOSED"
                 /\ lastCall' = "fail" => state' = "OPEN"]_vars

\* C12: the breaker goes from OPEN to HALF_OPEN only when more than Timeout
\* has passed since the last failure, and a call made while OPEN before
\* that fails fast: no operation is invoked and the breaker stays OPEN.
C12_OpenUntilCooldownElapsed ==
    [][/\ (state = "OPEN" /\ state' = "HALF_OPEN")
            => now - lastFailureTime > Timeout
       /\ (state = "OPEN" /\ now - lastFailureTime <= Timeout
           /\ callsMade' # callsMade)
            => (lastCall' = "open" /\ callers' = callers /\ state' = "OPEN")]_vars

\* a call failed fast while OPEN, and after the cooldown the next call is
\* in flight as the probe
C12_Witness ==
    /\ state = "HALF_OPEN"
    /\ lastCall = "open"
    /\ now - lastFailureTime > Timeout
    /\ \E c \in Callers : callers[c].st = "inOp" /\ callers[c].via = "HALF_OPEN"

\* C13: the breaker opens as soon as the failed calls of the window reach
\* Threshold, consecutive or not: while CLOSED, fewer than Threshold calls
\* have failed since it last closed.
C13_WindowFailuresOpen ==
    state = "CLOSED" => windowFailures < Threshold

\* C29: while the breaker is OPEN and the cooldown has not elapsed, no
\* event changes its state: the completion of a call started while CLOSED
\* neither closes the breaker nor resets its failure count.
C29_OpenWithinCooldownIsStable ==
    [][(state = "OPEN" /\ now - lastFailureTime <= Timeout)
          => (state' = "OPEN" /\ failureCount' >= failureCount)]_vars

\* C34: under any interleaving of calls, the breaker is OPEN or HALF_OPEN
\* only if failureCount >= threshold, and CLOSED only if failureCount <
\* threshold.
C34_StateAgreesWithFailureCount ==
    /\ state \in {"OPEN", "HALF_OPEN"} => failureCount >= Threshold
    /\ state = "CLOSED" => failureCount < Threshold

\* a probe has failed while a second call is in flight: the breaker is OPEN
\* again, with the failure count above the threshold
C34_Witness ==
    /\ state = "OPEN" /\ failureCount > Threshold
    /\ \E c \in Callers : callers[c].st = "inOp"

----------------------------------------------------------------------------
(* Claims about FCMTokenValidator, checked under ValidatorSpec *)

\* C17: for a token that fails validateTokenFormat no messaging.send call
\* is made, its validateToken call ends with a result, and the result in
\* the report has status INVALID_FORMAT.
C17_FormatFailureReportedWithoutCall ==
    /\ \A p \in 1..Len(vTokens) :
           ValidateTokenFormat(vTokens[p]) # {} => vSendCalls[p] = 0
    /\ \A k \in 1..Len(vChecks) :
           ValidateTokenFormat(vTokens[vChecks[k].idx]) # {}
               => (vChecks[k].st = "fulfilled"
                   /\ vChecks[k].status = "INVALID_FORMAT")
    /\ \A k \in 1..Len(vResults) :
           ValidateTokenFormat(vTokens[vResults[k].idx]) # {}
               => vResults[k].status = "INVALID_FORMAT"

\* C31: validateTokens returns exactly one result per input element, in
\* input order, for any input list: an element that is not a string is
\* reported INVALID_FORMAT and does not make the validation reject.
C31_OneResultPerElement ==
    /\ vPc # "rejected"
    /\ vPc = "returned" =>
           /\ Len(vResults) = Len(vTokens)
           /\ \A k \in 1..Len(vResults) :
                  /\ vResults[k].idx = k
                  /\ vTokens[k].type # "string" => vResults[k].status = "INVALID_FORMAT"

----------------------------------------------------------------------------
(* Claims about sendBatchNotifications, checked under MulticastSpec *)

\* C18: only a token the provider reports invalid or unregistered is passed
\* to removeInvalidTokens: never one that failed for a transient reason, and
\* never one that has a canonical replacement.
C18_OnlyInvalidTokensRemoved ==
    \A e \in mcRemoved : e.error = "invalid"

\* C19: a batch the provider has answered is recorded exactly once, with
\* the provider's counts, also when removeInvalidTokens throws: the results
\* hold no second entry for it.
C19_RemovalFailureKeepsBatchResult ==
    \A k, l \in 1..Len(mcResults) :
        (~mcResults[k].error /\ mcResults[l].batchNo = mcResults[k].batchNo)
            => l = k

\* C25: when the provider call of a batch throws, the batch is recorded
\* with every recipient failed and the error (none delivered), none of its
\* tokens is passed to removeInvalidTokens, and the loop goes on with the
\* next batch.
C25_ThrownBatchFailsAndLoopGoesOn ==
    [][(mcPc = "sending" /\ Len(mcResults') = Len(mcResults) + 1
        /\ mcResults'[Len(mcResults')].error)
          => /\ mcResults'[Len(mcResults')].batchNo = mcB
             /\ mcResults'[Len(mcResults')].success = 0
             /\ mcResults'[Len(mcResults')].failure = Len(mcBatches[mcB])
             /\ mcRemoved' = mcRemoved
             /\ mcB' = mcB + 1
             /\ mcPc' = IF mcB < Len(mcBatches) THEN "sending" ELSE "returned"]_vars

\* the provider call of the first batch threw, and the second batch was
\* sent and answered
C25_Witness ==
    /\ mcPc = "returned" /\ Len(mcBatches) = 2 /\ Len(mcResults) = 2
    /\ mcResults[1].batchNo = 1 /\ mcResults[1].error
    /\ mcResults[1].success = 0 /\ mcResults[1].failure = 1
    /\ mcResults[2].batchNo = 2 /\ ~mcResults[2].error

----------------------------------------------------------------------------
(* Claims about checkRateLimit, checked under LimiterSpec *)

\* C23: a caller that finds no capacity is made to wait for it: no call of
\* the rate limiter fails at the moment it is made, while whatever deadline
\* the caller has is still in the future.
C23_NoCapacityWaits ==
    [][rlCalls' # rlCalls => rlLast' # "exceeded"]_vars

\* C33: the calls accepted between two window resets never exceed
\* maxRequests, a call is rejected only when that number has reached
\* maxRequests, and a rejected call leaves the client's count unchanged.
C33_WindowCountBounded ==
    [][/\ rlAccepted' <= rlMaxRequests
       /\ (rlCalls' # rlCalls /\ rlLast' = "exceeded")
            => /\ ~WindowReset
               /\ rlAccepted = rlMaxRequests
               /\ rlEntry' = rlEntry]_vars

\* a full window after a reset: the call after the second accepted one of
\* the new window has been rejected
C33_Witness ==
    /\ rlLast = "exceeded" /\ rlMaxRequests = 2 /\ rlAccepted = 2
    /\ rlEntry[1].count = 2 /\ rlEntry[1].resetTime > Window

----------------------------------------------------------------------------
(* Claims about generateSummary and generateReport, checked under ReportSpec *)

RECURSIVE SumValues(_, _)
SumValues(f, D) ==
    IF D = {} THEN 0
    ELSE LET x == CHOOSE y \in D : TRUE IN f[x] + SumValues(f, D \ {x})

----------------------------------------------------------------------------
(* Claims about validateAndCleanTokens, checked under CleanSpec *)

\* C30: validateAndCleanTokens accounts for every input token: when the
\* call has returned, each token is returned as valid, or has been passed
\* to removeInvalidTokens, or has been passed to updateCanonicalTokens.
C30_EveryTokenAccountedFor ==
    vcPc = "returned" => 1..vcCount \subseteq vcValid \cup vcRemoved \cup vcReplaced

----------------------------------------------------------------------------
(* Claims about publishWithRetry, checked under PublisherSpec *)

\* C32: for every maxRetries >= 0, publishWithRetry makes at most
\* maxRetries publish attempts, retries only after a Throttling error, and
\* ends by returning the result of a successful publish or by throwing the
\* error of its last attempt: it never resolves without a result.
C32_EndsWithResultOrLastError ==
    /\ pwPublishes <= pwMaxRetries
    /\ pwPc = "backoff" => pwLast = "Throttling"
    /\ pwPc = "settled" =>
           \/ pwResult = "result" /\ pwLast = "ok"
           \/ pwResult \in {"Throttling", "other"} /\ pwResult = pwLast

----------------------------------------------------------------------------
(* Claims about the token format checks, checked under FormatSpec *)

\* C36: the format checks agree: validateFCMToken accepts a token exactly
\* when validateTokenFormat reports it valid, and a token accepted by the
\* handler's validateInput is accepted by both.
C36_FormatChecksAgree ==
    /\ (fmTester # "none" /\ fmValidator # "none") => fmTester = fmValidator
    /\ fmHandler = "accepted" => (fmTester # "rejected" /\ fmValidator # "rejected")

====
